---- MODULE Spec2Model ----
(***************************************************************************)
(* Model of scripts/check_aws.py: the AWS connectivity check that tries    *)
(* boto3's STS GetCallerIdentity and falls back to the aws CLI.            *)
(*                                                                         *)
(* A Python str is modelled as a Text: a sequence of tokens, each token a  *)
(* TLA+ string.  The str it stands for is the concatenation of its tokens  *)
(* (Str).  The only whitespace tokens are " " and "\n"; no other token     *)
(* holds a newline, and no other token the environment produces starts or  *)
(* ends with whitespace, so strip() and line counting can be done on       *)
(* tokens while equality of strs is decided on the concatenation.          *)
(***************************************************************************)
EXTENDS Integers, Sequences, FiniteSets, TLC

\* ------------------------------------------------------------------ bounds
\* longest exception message / stderr text the environment produces (tokens)
MaxMsg == 2
\* longest stdout text the aws CLI produces (tokens)
MaxStdout == 5

\* ------------------------------------------------------------------- texts
NL == "\n"
Whitespace == {" ", NL}

RECURSIVE Str(_)
\* the Python str a Text stands for
Str(t) == IF t = <<>> THEN "" ELSE Head(t) \o Str(Tail(t))

RECURSIVE TextsUpTo(_, _)
\* all Texts over alphabet A of at most n tokens
TextsUpTo(A, n) ==
    IF n = 0 THEN {<<>>}
    ELSE LET S == TextsUpTo(A, n - 1)
         IN  S \cup {Append(t, a) : t \in {u \in S : Len(u) = n - 1}, a \in A}

RECURSIVE lstrip(_)
lstrip(t) == IF t # <<>> /\ Head(t) \in Whitespace THEN lstrip(Tail(t)) ELSE t

RECURSIVE rstrip(_)
rstrip(t) ==
    IF t # <<>> /\ t[Len(t)] \in Whitespace
    THEN rstrip(SubSeq(t, 1, Len(t) - 1))
    ELSE t

\* strip() mistaken for lstrip(): trailing whitespace stays
stripLeftOnly(t) == lstrip(t)

\* str.strip() with no argument: whitespace removed at both ends only
strip(t) == rstrip(lstrip(t))

\* number of terminal lines a print() of this text produces
Lines(t) == 1 + Cardinality({i \in 1..Len(t) : t[i] = NL})

\* -------------------------------------------------------------- JSON values
\* A decoded JSON value.  All three shapes carry the same fields so that any
\* two values can be compared.  A dict keeps its items in insertion order, as
\* a sequence of <<key, value>>.
JInt(n) == [t |-> "int", n |-> n, s |-> "", items |-> <<>>]
JStr(s) == [t |-> "str", n |-> 0, s |-> s, items |-> <<>>]
JDict(items) == [t |-> "dict", n |-> 0, s |-> "", items |-> items]

\* contents of the string literals that occur in the modelled texts
StrContents == {"Account", "123456789012", "ResponseMetadata", "HTTPStatusCode"}

\* the JSON string literal for a content: the content between double quotes
Quote(s) == "\"" \o s \o "\""

StrTokens == {Quote(s) : s \in StrContents}

\* py_scanstring on one literal: the text between its quotes
Content(tok) == CHOOSE s \in StrContents : Quote(s) = tok

DigitTokens == <<"0", "1", "2", "3", "4", "5", "6", "7", "8", "9">>

IsDigit(tok) == \E i \in 1..10 : DigitTokens[i] = tok

DigitVal(tok) == (CHOOSE i \in 1..10 : DigitTokens[i] = tok) - 1

RECURSIVE Decimal(_)
\* int.__repr__ of a natural number, as digit tokens
Decimal(n) ==
    IF n < 10 THEN <<DigitTokens[n + 1]>>
    ELSE Append(Decimal(n \div 10), DigitTokens[(n % 10) + 1])

\* dict(pairs): a repeated key keeps its first position and takes the last value
RECURSIVE DictOf(_, _)
DictOf(pairs, acc) ==
    IF pairs = <<>> THEN acc
    ELSE LET p == Head(pairs)
             hit == {i \in 1..Len(acc) : acc[i][1] = p[1]}
         IN  IF hit = {}
             THEN DictOf(Tail(pairs), Append(acc, p))
             ELSE DictOf(Tail(pairs),
                         [i \in 1..Len(acc) |-> IF i \in hit THEN p ELSE acc[i]])

\* ------------------------------------------------------------- json.loads
Fail(msg) == [ok |-> FALSE, val |-> JInt(0), rest |-> <<>>, msg |-> msg]
Good(val, rest) == [ok |-> TRUE, val |-> val, rest |-> rest, msg |-> ""]

RECURSIVE SkipWs(_)
\* WHITESPACE.match(s, end).end()
SkipWs(t) == IF t # <<>> /\ Head(t) \in Whitespace THEN SkipWs(Tail(t)) ELSE t

RECURSIVE ScanNumber(_, _)
\* NUMBER_RE on an integer literal: 0, or a nonzero digit and the digits after it
ScanNumber(t, n) ==
    IF t # <<>> /\ IsDigit(Head(t))
    THEN ScanNumber(Tail(t), 10 * n + DigitVal(Head(t)))
    ELSE Good(JInt(n), t)

RECURSIVE scan_once(_)
RECURSIVE JSONObject(_)
RECURSIVE JSONPairs(_, _)

\* json.scanner scan_once: one value starting exactly at the head of t
scan_once(t) ==
    IF t = <<>> THEN Fail("Expecting value")
    ELSE IF Head(t) \in StrTokens THEN Good(JStr(Content(Head(t))), Tail(t))
    ELSE IF Head(t) = "{" THEN JSONObject(Tail(t))
    ELSE IF Head(t) = "0" THEN Good(JInt(0), Tail(t))
    ELSE IF IsDigit(Head(t)) THEN ScanNumber(t, 0)
    ELSE Fail("Expecting value")

\* json.decoder JSONObject, entered after the opening brace
JSONObject(t) ==
    LET u == SkipWs(t)
    IN  IF u # <<>> /\ Head(u) = "}" THEN Good(JDict(<<>>), Tail(u))
        ELSE IF u = <<>> \/ Head(u) \notin StrTokens
        THEN Fail("Expecting property name enclosed in double quotes")
        ELSE JSONPairs(u, <<>>)

\* the while loop of JSONObject: t starts with a key literal
JSONPairs(t, pairs) ==
    LET key == Content(Head(t))
        c == SkipWs(Tail(t))
    IN  IF c = <<>> \/ Head(c) # ":" THEN Fail("Expecting ':' delimiter")
        ELSE
        LET v == scan_once(SkipWs(Tail(c)))
        IN  IF ~v.ok THEN v
            ELSE
            LET e == SkipWs(v.rest)
                got == Append(pairs, <<key, v.val>>)
            IN  IF e # <<>> /\ Head(e) = "}"
                THEN Good(JDict(DictOf(got, <<>>)), Tail(e))
                ELSE IF e = <<>> \/ Head(e) # ","
                THEN Fail("Expecting ',' delimiter")
                ELSE
                LET k == SkipWs(Tail(e))
                IN  IF k = <<>> \/ Head(k) \notin StrTokens
                    THEN Fail("Expecting property name enclosed in double quotes")
                    ELSE JSONPairs(k, got)

\* json.loads(s): JSONDecoder.decode: one value, whitespace around it allowed,
\* anything after it is "Extra data".  A failure is the JSONDecodeError raised,
\* with msg its message (the position suffix is left out).
json_loads(t) ==
    LET v == scan_once(SkipWs(t))
    IN  IF ~v.ok THEN v
        ELSE IF SkipWs(v.rest) # <<>> THEN Fail("Extra data")
        ELSE Good(v.val, <<>>)

\* ------------------------------------------------------------- json.dumps
RECURSIVE Spaces(_)
Spaces(n) == IF n = 0 THEN <<>> ELSE <<" ">> \o Spaces(n - 1)

RECURSIVE Encode(_, _, _)
RECURSIVE EncodeItems(_, _, _)

\* _iterencode with an indent: the value at nesting level lvl
Encode(v, indent, lvl) ==
    IF v.t = "int" THEN Decimal(v.n)
    ELSE IF v.t = "str" THEN <<Quote(v.s)>>
    ELSE IF v.items = <<>> THEN <<"{", "}">>
    ELSE <<"{">> \o EncodeItems(v.items, indent, lvl + 1)
                 \o <<NL>> \o Spaces(indent * lvl) \o <<"}">>

RECURSIVE EncodeItemsNoComma(_, _, _)
\* _iterencode_dict without the item separator
EncodeItemsNoComma(items, indent, lvl) ==
    LET p == Head(items)
        one == <<NL>> \o Spaces(indent * lvl) \o <<Quote(p[1]), ":", " ">>
                     \o Encode(p[2], indent, lvl)
    IN  IF Len(items) = 1 THEN one
        ELSE one \o EncodeItemsNoComma(Tail(items), indent, lvl)

\* _iterencode_dict body: the items, each on its own indented line
EncodeItems(items, indent, lvl) ==
    LET p == Head(items)
        one == <<NL>> \o Spaces(indent * lvl) \o <<Quote(p[1]), ":", " ">>
                     \o Encode(p[2], indent, lvl)
    IN  IF Len(items) = 1 THEN one
        ELSE one \o <<",">> \o EncodeItems(Tail(items), indent, lvl)

\* json.dumps(obj, indent=indent)
json_dumps(v, indent) == Encode(v, indent, 0)

\* ------------------------------------------------------------ environment
\* tokens of the messages the environment produces (exception texts, stderr);
\* two of them are the very words the program uses as failure tags
MsgAlphabet ==
    {"Unable to locate credentials", " ", NL, "boto3-not-available",
     "no-credentials"}
Msgs == TextsUpTo(MsgAlphabet, MaxMsg)

\* tokens of what the aws CLI writes on stdout
JsonAlphabet == {"{", "}", ":", ",", Quote("Account"), "1", " "}
Stdouts == TextsUpTo(JsonAlphabet, MaxStdout)

\* what sts.get_caller_identity() returns
Responses ==
    { JDict(<<>>),
      JDict(<< <<"Account", JStr("123456789012")>> >>),
      JDict(<< <<"Account", JStr("123456789012")>>,
               <<"ResponseMetadata",
                 JDict(<< <<"HTTPStatusCode", JInt(200)>> >>)>> >>) }

\* exception classes the SDK raises, each with the classes it is an instance of
Mro(cls) ==
    CASE cls = "NoCredentialsError" ->
             {"NoCredentialsError", "BotoCoreError", "Exception"}
      [] cls = "EndpointConnectionError" ->
             {"EndpointConnectionError", "ConnectionError", "BotoCoreError",
              "Exception"}
      [] cls = "ClientError" -> {"ClientError", "Exception"}
      [] cls = "NoRegionError" -> {"NoRegionError", "BotoCoreError", "Exception"}
      [] cls = "RuntimeError" -> {"RuntimeError", "Exception"}

ExcClasses ==
    {"NoCredentialsError", "EndpointConnectionError", "ClientError",
     "NoRegionError", "RuntimeError"}

NoSdk == [imp |-> "pending", stage |-> "none", exc |-> "none",
          msg |-> <<>>, resp |-> JInt(0)]

\* every way lines 17-24 can go: an import fails; boto3.client("sts") or
\* sts.get_caller_identity() raises; or the call returns a response
SdkOutcomes ==
    {[NoSdk EXCEPT !.imp = i] : i \in {"no boto3", "no botocore.exceptions"}}
    \cup {[imp |-> "imported", stage |-> st, exc |-> c, msg |-> m,
           resp |-> JInt(0)] :
            st \in {"client", "call"}, c \in ExcClasses, m \in Msgs}
    \cup {[imp |-> "imported", stage |-> "call", exc |-> "none", msg |-> <<>>,
           resp |-> r] : r \in Responses}

NoProc == [spawn |-> "pending", returncode |-> 0, stdout |-> <<>>,
           stderr |-> <<>>]

\* every way subprocess.run can go: the spawn raises, or the CompletedProcess.
\* The stream the code does not read in a case is kept to a few values.
ProcOutcomes ==
    {[NoProc EXCEPT !.spawn = e] : e \in {"FileNotFoundError", "PermissionError"}}
    \cup {[spawn |-> "ran", returncode |-> rc, stdout |-> o, stderr |-> e] :
            rc \in {1, 255}, o \in {<<>>, <<"{", "}">>}, e \in Msgs}
    \cup {[spawn |-> "ran", returncode |-> 0, stdout |-> o, stderr |-> <<>>] :
            o \in Stdouts}

\* what load_dotenv() can do: load the file, find none, or raise on it
LoadResults == {"loaded", "no file", "raise"}

\* ------------------------------------------------------- check_with_boto3
\* the except clauses with the catch-all written first
HandlersBroadFirst ==
    <<"Exception", "NoCredentialsError", "EndpointConnectionError", "ClientError">>

\* the except clauses of lines 26-32, in order
Handlers ==
    <<"NoCredentialsError", "EndpointConnectionError", "ClientError", "Exception">>

\* the first except clause that matches an exception of class cls
Caught(cls) ==
    Handlers[CHOOSE i \in 1..Len(Handlers) :
                /\ Handlers[i] \in Mro(cls)
                /\ \A j \in 1..(i - 1) : Handlers[j] \notin Mro(cls)]

\* check_with_boto3 with the imports and the call in one try block, whose
\* catch-all reports the SDK as unavailable
check_with_boto3_one_try(o) ==
    IF o.imp # "imported" THEN <<FALSE, <<"boto3-not-available">>>>
    ELSE IF o.exc = "none" THEN <<TRUE, o.resp>>
    ELSE LET h == Caught(o.exc)
         IN  CASE h = "NoCredentialsError" -> <<FALSE, <<"no-credentials">>>>
               [] h = "EndpointConnectionError" ->
                      <<FALSE, <<"endpoint-error: ">> \o o.msg>>
               [] h = "ClientError" -> <<FALSE, <<"client-error: ">> \o o.msg>>
               [] h = "Exception" -> <<FALSE, <<"boto3-not-available">>>>

\* check_with_boto3(): the pair (ok, data) for an outcome of the SDK
check_with_boto3(o) ==
    IF o.imp # "imported" THEN <<FALSE, <<"boto3-not-available">>>>
    ELSE IF o.exc = "none" THEN <<TRUE, o.resp>>
    ELSE LET h == Caught(o.exc)
         IN  CASE h = "NoCredentialsError" -> <<FALSE, <<"no-credentials">>>>
               [] h = "EndpointConnectionError" ->
                      <<FALSE, <<"endpoint-error: ">> \o o.msg>>
               [] h = "ClientError" -> <<FALSE, <<"client-error: ">> \o o.msg>>
               [] h = "Exception" -> <<FALSE, <<"unknown-error: ">> \o o.msg>>

\* ------------------------------------------------------ check_with_awscli
\* check_with_awscli without the returncode test of line 42
check_with_awscli_no_returncode(p) ==
    IF p.spawn = "FileNotFoundError"
    THEN [raised |-> FALSE, ok |-> FALSE, data |-> <<"aws-cli-not-found">>]
    ELSE IF p.spawn # "ran"
    THEN [raised |-> TRUE, ok |-> FALSE, data |-> <<>>]
    ELSE LET r == json_loads(p.stdout)
         IN  IF r.ok
             THEN [raised |-> FALSE, ok |-> TRUE, data |-> r.val]
             ELSE [raised |-> FALSE, ok |-> FALSE,
                   data |-> <<"parse-error: ", r.msg>>]

\* check_with_awscli(): raised says an exception left the function
check_with_awscli(p) ==
    IF p.spawn = "FileNotFoundError"
    THEN [raised |-> FALSE, ok |-> FALSE, data |-> <<"aws-cli-not-found">>]
    ELSE IF p.spawn # "ran"
    THEN [raised |-> TRUE, ok |-> FALSE, data |-> <<>>]
    ELSE IF p.returncode # 0
    THEN [raised |-> FALSE, ok |-> FALSE,
          data |-> <<"aws-cli-error: ">> \o strip(p.stderr)]
    ELSE LET r == json_loads(p.stdout)
         IN  IF r.ok
             THEN [raised |-> FALSE, ok |-> TRUE, data |-> r.val]
             ELSE [raised |-> FALSE, ok |-> FALSE,
                   data |-> <<"parse-error: ", r.msg>>]

\* -------------------------------------------------------------------- main
VARIABLES
    pc,          \* where the script is
    dotenv,      \* how line 8's import went
    loads,       \* what each load_dotenv() call did, in order
    sdk,         \* what the SDK did in check_with_boto3
    proc,        \* what subprocess.run did in check_with_awscli
    ok, data,    \* main's ok, data
    ok2, data2,  \* main's ok2, data2
    out,         \* stdout: the text of each print(), in order
    traceback,   \* an uncaught exception's traceback was written to stderr
    exitCode,    \* the process's exit status; -1 while it runs
    boto3Calls, netCalls, awscliCalls, spawnCalls

vars == <<pc, dotenv, loads, sdk, proc, ok, data, ok2, data2, out, traceback,
          exitCode, boto3Calls, netCalls, awscliCalls, spawnCalls>>

Init ==
    /\ pc = "import"
    /\ dotenv = "pending"
    /\ loads = <<>>
    /\ sdk = NoSdk
    /\ proc = NoProc
    /\ ok = FALSE /\ data = <<>>
    /\ ok2 = FALSE /\ data2 = <<>>
    /\ out = <<>>
    /\ traceback = FALSE
    /\ exitCode = -1
    /\ boto3Calls = 0 /\ netCalls = 0 /\ awscliCalls = 0 /\ spawnCalls = 0

\* sys.exit(code)
Exit(code) == pc' = "exited" /\ exitCode' = code /\ traceback' = FALSE

\* an exception nobody catches: the interpreter prints the traceback, status 1
Uncaught == pc' = "exited" /\ exitCode' = 1 /\ traceback' = TRUE

\* line 65 testing for the wrong tag: anything but no-credentials falls back
IsUnavailableLoose(d) == Str(d) # "no-credentials"

\* line 65
IsUnavailable(d) == Str(d) = "boto3-not-available"

\* line 76 with the tag misspelt
IsNoCredentialsTypo(d) == Str(d) = "no-credential"

\* line 76
IsNoCredentials(d) == Str(d) = "no-credentials"

\* line 8: from dotenv import load_dotenv
ImportDotenv ==
    /\ pc = "import"
    /\ \E r \in {"imported", "ModuleNotFoundError"} :
         /\ dotenv' = r
         /\ IF r = "imported"
            THEN pc' = "line 13" /\ UNCHANGED <<exitCode, traceback>>
            ELSE Uncaught
    /\ UNCHANGED <<loads, sdk, proc, ok, data, ok2, data2, out, boto3Calls,
                   netCalls, awscliCalls, spawnCalls>>

\* line 13: load_dotenv() at import time, outside any try
ModuleLoad ==
    /\ pc = "line 13"
    /\ \E r \in LoadResults :
         /\ loads' = Append(loads, r)
         /\ IF r = "raise"
            THEN Uncaught
            ELSE pc' = "main" /\ UNCHANGED <<exitCode, traceback>>
    /\ UNCHANGED <<dotenv, sdk, proc, ok, data, ok2, data2, out, boto3Calls,
                   netCalls, awscliCalls, spawnCalls>>

\* lines 53-57: the guarded load_dotenv() of main
MainLoad ==
    /\ pc = "main"
    /\ \E r \in LoadResults : loads' = Append(loads, r)
    /\ pc' = "line 58"
    /\ UNCHANGED <<dotenv, sdk, proc, ok, data, ok2, data2, out, traceback,
                   exitCode, boto3Calls, netCalls, awscliCalls, spawnCalls>>

\* lines 58-65 and 75-81: the primary check and what main does with it
MainPrimary ==
    /\ pc = "line 58"
    /\ \E o \in SdkOutcomes :
         LET r == check_with_boto3(o)
         IN  /\ sdk' = o
             /\ ok' = r[1]
             /\ data' = r[2]
             /\ boto3Calls' = boto3Calls + 1
             /\ netCalls' = IF o.stage = "call" THEN netCalls + 1 ELSE netCalls
             /\ IF r[1]
                THEN /\ out' = out \o <<<<"AWS reachable via boto3:">>,
                                         json_dumps(r[2], 2)>>
                     /\ Exit(0)
                ELSE IF IsUnavailable(r[2])
                THEN /\ pc' = "line 66"
                     /\ UNCHANGED <<out, exitCode, traceback>>
                ELSE IF IsNoCredentials(r[2])
                THEN /\ out' = Append(out,
                           <<"AWS check failed: no credentials available for boto3">>)
                     /\ Exit(2)
                ELSE /\ out' = Append(out, <<"AWS check failed (boto3): ">> \o r[2])
                     /\ Exit(4)
    /\ UNCHANGED <<dotenv, loads, proc, ok2, data2, awscliCalls, spawnCalls>>

\* line 69 printing main's data, the primary's failure text, for data2
FallbackPayloadPrimary(d, d2) == JStr(Str(d))

\* line 69: the value main hands to json.dumps after the fallback: data2
FallbackPayload(d, d2) == d2

\* lines 66-73: the fallback check and what main does with it
MainFallback ==
    /\ pc = "line 66"
    /\ \E p \in ProcOutcomes :
         LET r == check_with_awscli(p)
         IN  /\ proc' = p
             /\ awscliCalls' = awscliCalls + 1
             /\ spawnCalls' = spawnCalls + 1
             /\ IF r.raised
                THEN Uncaught /\ UNCHANGED <<ok2, data2, out>>
                ELSE /\ ok2' = r.ok
                     /\ data2' = r.data
                     /\ IF r.ok
                        THEN /\ out' = out \o <<<<"AWS reachable via aws-cli:">>,
                                                 json_dumps(FallbackPayload(data, r.data), 2)>>
                             /\ Exit(0)
                        ELSE /\ out' = Append(out,
                                   <<"AWS check failed (aws-cli): ">> \o r.data)
                             /\ Exit(3)
    /\ UNCHANGED <<dotenv, loads, sdk, ok, data, boto3Calls, netCalls>>

Next == ImportDotenv \/ ModuleLoad \/ MainLoad \/ MainPrimary \/ MainFallback

Spec == Init /\ [][Next]_vars

\* ------------------------------------------------------------------ claims
Exited == pc = "exited"

\* the SDK could not be imported
SdkMissing == sdk.imp \in {"no boto3", "no botocore.exceptions"}

\* the SDK call returned a response
SdkReturned == sdk.imp = "imported" /\ sdk.exc = "none"

\* the SDK raised an exception of class c
SdkRaised(c) == sdk.imp = "imported" /\ sdk.exc = c

\* the CLI ran to a zero status and its stdout is a JSON text
CliReturned ==
    /\ proc.spawn = "ran"
    /\ proc.returncode = 0
    /\ json_loads(proc.stdout).ok

\* the tag the code puts before the message of an exception of class c
Category(c) ==
    CASE c = "EndpointConnectionError" -> "endpoint-error: "
      [] c = "ClientError" -> "client-error: "
      [] OTHER -> "unknown-error: "

\* b is s with its leading and trailing whitespace removed, and nothing else
IsTrimOf(b, s) ==
    \E i \in 1..(Len(s) + 1), j \in 0..Len(s) :
        /\ b = SubSeq(s, i, j)
        /\ \A k \in 1..Len(s) : (k < i \/ k > j) => s[k] \in Whitespace
        /\ b # <<>> => (b[1] \notin Whitespace /\ b[Len(b)] \notin Whitespace)

\* C1: check_with_awscli() runs (and a subprocess is spawned) only if
\* check_with_boto3() returned the failure "boto3-not-available", which it
\* does only when the SDK could not be imported; after every other primary
\* outcome, whatever its detail text, the subprocess call count is zero.
C1_FallbackOnlyWhenUnavailable ==
    /\ (awscliCalls > 0 \/ spawnCalls > 0) =>
          (~ok /\ Str(data) = "boto3-not-available" /\ SdkMissing)
    /\ (Exited /\ sdk.imp = "imported") => (awscliCalls = 0 /\ spawnCalls = 0)

\* C1 witness: an unknown error whose text is the very word
\* "boto3-not-available" ended the run without a subprocess
C1_Witness ==
    /\ Exited
    /\ SdkRaised("RuntimeError")
    /\ sdk.msg = <<"boto3-not-available">>
    /\ spawnCalls = 0

\* C2 (as claimed): no exception escapes; every run ends with an exit code
\* in {0, 2, 3, 4} and without a traceback.
C2_NoUncaughtException ==
    Exited => (exitCode \in {0, 2, 3, 4} /\ ~traceback)

\* C3 (as claimed): whatever the environment loader does (absent, no file,
\* raises), the run reaches check_with_boto3() and ends with the exit code
\* the check outcomes decide.
C3_LoaderFailureSwallowed ==
    (Exited /\ (dotenv = "ModuleNotFoundError"
                  \/ \E i \in 1..Len(loads) : loads[i] \in {"no file", "raise"}))
        => (boto3Calls = 1 /\ exitCode \in {0, 2, 3, 4})

\* C4 (as claimed): primary unavailable and the CLI exits non-zero with
\* stderr S: the output is exactly "AWS check failed (aws-cli): <S trimmed>",
\* exit code 3.
C4_CliErrorLineOriginal ==
    (Exited /\ SdkMissing /\ proc.spawn = "ran" /\ proc.returncode # 0)
        => /\ exitCode = 3
           /\ Len(out) = 1
           /\ \E b \in Msgs :
                /\ IsTrimOf(b, proc.stderr)
                /\ Str(out[1]) = "AWS check failed (aws-cli): " \o Str(b)

\* C4 (amended): primary unavailable and the CLI exits non-zero with stderr
\* S: the output is exactly
\* "AWS check failed (aws-cli): aws-cli-error: <S trimmed>", exit code 3.
C4_CliErrorLine ==
    (Exited /\ SdkMissing /\ proc.spawn = "ran" /\ proc.returncode # 0)
        => /\ exitCode = 3
           /\ Len(out) = 1
           /\ \E b \in Msgs :
                /\ IsTrimOf(b, proc.stderr)
                /\ Str(out[1]) =
                     "AWS check failed (aws-cli): aws-cli-error: " \o Str(b)

\* C4 witness: the CLI failed with the scenario's stderr, padded with
\* whitespace that the program trimmed
C4_Witness ==
    /\ Exited
    /\ SdkMissing
    /\ proc.returncode = 1
    /\ proc.stderr = <<"Unable to locate credentials", NL>>
    /\ Str(out[1]) =
         "AWS check failed (aws-cli): aws-cli-error: Unable to locate credentials"
    /\ exitCode = 3

\* C5: primary unavailable and the fallback fails: exit code 3 whether the
\* CLI binary is not found, the CLI exits non-zero, or it exits zero with a
\* stdout that is not JSON.
C5_FallbackFailureExit3 ==
    (/\ Exited
     /\ SdkMissing
     /\ \/ proc.spawn = "FileNotFoundError"
        \/ proc.spawn = "ran" /\ proc.returncode # 0
        \/ proc.spawn = "ran" /\ proc.returncode = 0
                              /\ ~json_loads(proc.stdout).ok)
        => exitCode = 3

\* C5 witness: the CLI exited non-zero although it wrote JSON on stdout
C5_Witness ==
    /\ Exited
    /\ SdkMissing
    /\ proc.spawn = "ran"
    /\ proc.returncode = 255
    /\ proc.stdout = <<"{", "}">>
    /\ exitCode = 3

\* C6: the primary path reports no credentials: the output is the line
\* "AWS check failed: no credentials available for boto3", the exit code is
\* 2, and the fallback did not run.
C6_NoCredentialsExit2 ==
    (Exited /\ (SdkRaised("NoCredentialsError")
                   \/ (boto3Calls > 0 /\ ~ok /\ Str(data) = "no-credentials")))
        => /\ SdkRaised("NoCredentialsError")
           /\ exitCode = 2
           /\ Len(out) = 1
           /\ Str(out[1]) = "AWS check failed: no credentials available for boto3"
           /\ awscliCalls = 0
           /\ spawnCalls = 0

\* C6 witness: the SDK raised NoCredentialsError and the run ended with 2
C6_Witness ==
    /\ Exited
    /\ SdkRaised("NoCredentialsError")
    /\ exitCode = 2
    /\ spawnCalls = 0

\* C7: the exit code is 4 exactly when the primary path reports an endpoint
\* error, a client error or an unknown error, with any detail; the output is
\* then the line "AWS check failed (boto3): <category>: <detail>".
C7_OtherPrimaryFailureExit4 ==
    Exited =>
        /\ exitCode = 4 <=>
              (sdk.imp = "imported"
                 /\ sdk.exc \in ExcClasses \ {"NoCredentialsError"})
        /\ exitCode = 4 =>
              /\ Len(out) = 1
              /\ Str(out[1]) = "AWS check failed (boto3): "
                                  \o Category(sdk.exc) \o Str(sdk.msg)

\* C7 witness: an unknown error whose detail is the word "no-credentials"
\* still ended with 4
C7_Witness ==
    /\ Exited
    /\ SdkRaised("NoRegionError")
    /\ sdk.msg = <<"no-credentials">>
    /\ exitCode = 4

\* the payload of the path that succeeded
Payload == IF SdkReturned THEN sdk.resp ELSE json_loads(proc.stdout).val

\* C8: the exit code is 0 exactly when a payload was retrieved, by the SDK
\* or, the SDK missing, by the CLI; the output is then the line naming that
\* path and a JSON text that reads back as that path's payload.
C8_ExitZeroIffPayload ==
    Exited =>
        /\ exitCode = 0 <=> (SdkReturned \/ (SdkMissing /\ CliReturned))
        /\ exitCode = 0 =>
              /\ Len(out) = 2
              /\ Str(out[1]) = (IF SdkReturned THEN "AWS reachable via boto3:"
                                               ELSE "AWS reachable via aws-cli:")
              /\ json_loads(out[2]).ok
              /\ json_loads(out[2]).val = Payload

\* C8 witness: the SDK was missing and the CLI's payload was printed
C8_Witness ==
    /\ Exited
    /\ SdkMissing
    /\ proc.stdout = <<"{", Quote("Account"), ":", "1", "}">>
    /\ exitCode = 0
    /\ Str(out[2]) = "{\n  \"Account\": 1\n}"

\* C9: each check is attempted at most once, and no run makes both the
\* SDK's network call and the subprocess: the subprocess is spawned only
\* when the SDK could not be imported, and then no network call was made.
C9_SingleExternalCall ==
    /\ boto3Calls <= 1 /\ netCalls <= 1
    /\ awscliCalls <= 1 /\ spawnCalls <= 1
    /\ ~(netCalls > 0 /\ spawnCalls > 0)
    /\ spawnCalls > 0 => (SdkMissing /\ netCalls = 0)
    /\ netCalls > 0 => sdk.stage = "call"

\* C9 witness: a run that spawned the subprocess and one call of each check
C9_Witness ==
    /\ Exited
    /\ boto3Calls = 1 /\ awscliCalls = 1 /\ spawnCalls = 1 /\ netCalls = 0

\* C10 (as claimed): every run prints exactly one status line, followed by
\* the JSON payload exactly when it succeeds, and never a stack trace.
C10_SingleStatusLine ==
    Exited =>
        /\ ~traceback
        /\ Len(out) >= 1
        /\ Lines(out[1]) = 1
        /\ exitCode = 0 <=> Len(out) = 2
        /\ exitCode \in {2, 3, 4} => Len(out) = 1

====
